---------------------------- MODULE Spec2Model ----------------------------
(***************************************************************************)
(* KAnime property-tweening engine: the promise-based animate of           *)
(* src/src/index.js, the callback-based animate of the older build         *)
(* (class g of src/dist/kanime.es.js) and kanime of the current build      *)
(* (class KAnime of src/dist/kanime.es.js), driven by the host's           *)
(* requestAnimationFrame queue.                                            *)
(***************************************************************************)
EXTENDS Integers, Sequences, FiniteSets, TLC

(***************************************************************************)
(* JavaScript numbers.  A Number is an IEEE-754 binary float: every        *)
(* arithmetic operator computes the exact result and rounds it to the      *)
(* nearest representable value, ties to even.  The model keeps that        *)
(* algorithm and narrows the significand from 53 bits to MantBits bits so  *)
(* that the significands fit TLC's 32-bit integers.  A finite number is    *)
(* m * 2^e with m odd (or m = 0, e = 0); NaN and the infinities are kept.  *)
(* Negative zero is not distinguished from zero (it prints as "0").        *)
(***************************************************************************)
MantBits == 11

Fin(m, e) == [k |-> "fin", m |-> m, e |-> e]
NaN       == [k |-> "nan", m |-> 0, e |-> 0]
Inf(s)    == [k |-> "inf", m |-> s, e |-> 0]
\* the value undefined (a variable declared and not yet assigned)
Undef     == [k |-> "undef", m |-> 0, e |-> 0]
\* a finite number the model does not compute (a result of Math.pow and
\* Math.sin); arithmetic on it gives another such number
Opq       == [k |-> "opq", m |-> 0, e |-> 0]

RECURSIVE Pow2(_)
Pow2(n) == IF n <= 0 THEN 1 ELSE 2 * Pow2(n - 1)

Abs(i) == IF i < 0 THEN -i ELSE i
Sgn(i) == IF i < 0 THEN -1 ELSE IF i > 0 THEN 1 ELSE 0

RECURSIVE BitLen(_)
BitLen(n) == IF n <= 0 THEN 0 ELSE 1 + BitLen(n \div 2)

\* canonical form: strip the trailing zero bits of the significand
RECURSIVE Norm(_, _)
Norm(m, e) ==
    IF m = 0 THEN Fin(0, 0)
    ELSE IF m % 2 = 0 THEN Norm(m \div 2, e + 1)
    ELSE Fin(m, e)

\* round the exact value m * 2^e (plus a positive remainder below one unit
\* of m when sticky) to MantBits significant bits, ties to even
RoundP(m, e, sticky) ==
    LET a == Abs(m)
        s == BitLen(a) - MantBits
    IN  IF s <= 0 THEN Norm(m, e)
        ELSE LET q    == a \div Pow2(s)
                 r    == a % Pow2(s)
                 half == Pow2(s - 1)
                 up   == r > half \/ (r = half /\ (sticky \/ q % 2 = 1))
             IN  Norm(Sgn(m) * (IF up THEN q + 1 ELSE q), e + s)

FInt(i) == RoundP(i, 0, FALSE)
FNeg(a) == IF a.k = "nan" THEN NaN ELSE [a EXCEPT !.m = -a.m]

Min2(x, y) == IF x <= y THEN x ELSE y

\* a + b
FAdd(a, b) ==
    IF a.k = "nan" \/ b.k = "nan" THEN NaN
    ELSE IF a.k = "opq" \/ b.k = "opq"
         THEN (IF a.k = "inf" THEN a ELSE IF b.k = "inf" THEN b ELSE Opq)
    ELSE IF a.k = "inf" /\ b.k = "inf" THEN (IF a.m = b.m THEN a ELSE NaN)
    ELSE IF a.k = "inf" THEN a
    ELSE IF b.k = "inf" THEN b
    ELSE LET lo == Min2(a.e, b.e)
         IN  RoundP(a.m * Pow2(a.e - lo) + b.m * Pow2(b.e - lo), lo, FALSE)

\* a - b
FSub(a, b) == FAdd(a, FNeg(b))

\* a * b
FMul(a, b) ==
    IF a.k = "nan" \/ b.k = "nan" THEN NaN
    ELSE IF a.k = "opq" \/ b.k = "opq"
         THEN (IF a.k = "inf" \/ b.k = "inf" THEN NaN
               ELSE IF (a.k = "fin" /\ a.m = 0) \/ (b.k = "fin" /\ b.m = 0)
                    THEN Fin(0, 0) ELSE Opq)
    ELSE IF a.k = "inf" \/ b.k = "inf"
         THEN (IF a.m = 0 \/ b.m = 0 THEN NaN ELSE Inf(Sgn(a.m) * Sgn(b.m)))
    ELSE RoundP(a.m * b.m, a.e + b.e, FALSE)

\* a / b
FDiv(a, b) ==
    IF a.k = "nan" \/ b.k = "nan" THEN NaN
    ELSE IF a.k = "inf" THEN (IF b.k = "inf" THEN NaN
                              ELSE Inf(a.m * (IF b.m < 0 THEN -1 ELSE 1)))
    ELSE IF b.k = "inf" THEN Fin(0, 0)
    ELSE IF b.m = 0 THEN (IF a.m = 0 THEN NaN ELSE Inf(Sgn(a.m)))
    ELSE LET sh == BitLen(Abs(b.m)) + MantBits + 2 - BitLen(Abs(a.m))
             n  == Abs(a.m) * Pow2(sh)
             d  == Abs(b.m)
         IN  RoundP(Sgn(a.m) * Sgn(b.m) * (n \div d), a.e - b.e - sh, n % d # 0)

\* a < b
FLess(a, b) ==
    IF a.k = "nan" \/ b.k = "nan" THEN FALSE
    ELSE IF a.k = "inf" THEN a.m < 0 /\ ~(b.k = "inf" /\ b.m < 0)
    ELSE IF b.k = "inf" THEN b.m > 0
    ELSE LET lo == Min2(a.e, b.e)
         IN  a.m * Pow2(a.e - lo) < b.m * Pow2(b.e - lo)

\* Math.min(a, b)
FMin(a, b) ==
    IF a.k = "nan" \/ b.k = "nan" THEN NaN
    ELSE IF FLess(b, a) THEN b ELSE a

\* ToBoolean: undefined, 0 and NaN are falsy
Truthy(a) == ~(a.k = "undef" \/ a.k = "nan" \/ (a.k = "fin" /\ a.m = 0))

\* the numeric literal whose exact value is n/d, rounded once
FDec(n, d) == FDiv(Fin(n, 0), Fin(d, 0))

Zero == FInt(0)
One  == FInt(1)
Two  == FInt(2)

(***************************************************************************)
(* The easing curves.                                                      *)
(***************************************************************************)
EaseInOut(t) ==
    IF FLess(t, FDec(1, 2))
    THEN FMul(FMul(Two, t), t)
    ELSE FAdd(FInt(-1), FMul(FSub(FInt(4), FMul(Two, t)), t))

\* mutant: ease-out written as t * (1 - t)
EaseOutSlip(t, type) ==
    CASE type = "linear"      -> t
      [] type = "ease-in"     -> FMul(t, t)
      [] type = "ease-out"    -> FMul(t, FSub(One, t))
      [] type = "ease-in-out" -> EaseInOut(t)
      [] OTHER                -> t

\* _ease(t, type) of src/src/index.js and of class g in the dist build
Ease(t, type) ==
    CASE type = "linear"      -> t
      [] type = "ease-in"     -> FMul(t, t)
      [] type = "ease-out"    -> FMul(t, FSub(Two, t))
      [] type = "ease-in-out" -> EaseInOut(t)
      [] OTHER                -> t

\* the keys of the easings object literal of kanime
EasingTable ==
    {"linear", "ease", "ease-in", "ease-out", "ease-in-out",
     "cubic-in", "cubic-out", "cubic-in-out", "bounce", "elastic"}

\* --t * t * t + 1: t is decremented before it is read
CubicOut(t) ==
    LET u == FSub(t, One) IN FAdd(FMul(FMul(u, u), u), One)

CubicInOut(t) ==
    IF FLess(t, FDec(1, 2))
    THEN FMul(FMul(FMul(FInt(4), t), t), t)
    ELSE LET a == FSub(t, One)
             b == FSub(FMul(Two, t), Two)
         IN  FAdd(FMul(FMul(a, b), b), One)

\* mutant: the last segment of bounce shifted by 2.25 / d1, as the third is
BounceSlip(t) ==
    LET n1 == FDec(121, 16)
        d1 == FDec(11, 4)
        seg(off, add) == LET u == FSub(t, FDiv(off, d1))
                         IN  FAdd(FMul(FMul(n1, u), u), add)
    IN  IF FLess(t, FDiv(One, d1)) THEN FMul(FMul(n1, t), t)
        ELSE IF FLess(t, FDiv(Two, d1)) THEN seg(FDec(3, 2), FDec(3, 4))
        ELSE IF FLess(t, FDiv(FDec(5, 2), d1)) THEN seg(FDec(9, 4), FDec(15, 16))
        ELSE seg(FDec(9, 4), FDec(63, 64))

\* n1 = 7.5625 = 121/16, d1 = 2.75 = 11/4; 1.5, 2.25, 2.625 and 0.75,
\* 0.9375, 0.984375 are 3/2, 9/4, 21/8 and 3/4, 15/16, 63/64
Bounce(t) ==
    LET n1 == FDec(121, 16)
        d1 == FDec(11, 4)
        seg(off, add) == LET u == FSub(t, FDiv(off, d1))
                         IN  FAdd(FMul(FMul(n1, u), u), add)
    IN  IF FLess(t, FDiv(One, d1)) THEN FMul(FMul(n1, t), t)
        ELSE IF FLess(t, FDiv(Two, d1)) THEN seg(FDec(3, 2), FDec(3, 4))
        ELSE IF FLess(t, FDiv(FDec(5, 2), d1)) THEN seg(FDec(9, 4), FDec(15, 16))
        ELSE seg(FDec(21, 8), FDec(63, 64))

\* t === 0 ? 0 : t === 1 ? 1 : -Math.pow(2, 10t - 10) * Math.sin(...)
Elastic(t) ==
    IF t = Zero THEN Zero
    ELSE IF t = One THEN One
    ELSE IF t.k = "nan" THEN NaN
    ELSE Opq

\* easings[easing] is an ordinary property read: a name that is no key of
\* the literal is looked up on Object.prototype.  "own": an entry of the
\* table; "undefined": no such property; otherwise what the inherited
\* member returns when called as easings[easing](t): "string" for toString
\* and toLocaleString ("[object Object]"), "object" for valueOf (the table
\* itself), "false" for hasOwnProperty, isPrototypeOf and
\* propertyIsEnumerable, "wrapper" for constructor (Object(t), a Number
\* object whose value is t), and "notcallable" for __proto__
\* (Object.prototype, truthy and no function).
EasingLookup(easing) ==
    CASE easing \in EasingTable -> "own"
      [] easing \in {"toString", "toLocaleString"} -> "string"
      [] easing = "valueOf" -> "object"
      [] easing \in {"hasOwnProperty", "isPrototypeOf", "propertyIsEnumerable"}
            -> "false"
      [] easing = "constructor" -> "wrapper"
      [] easing = "__proto__" -> "notcallable"
      [] OTHER -> "undefined"

Throw == [k |-> "throw", m |-> 0, e |-> 0]

\* easings[easing] ? easings[easing](t) : t, as the number the multiplication
\* (end - start) * easeT converts it to; Throw when the call throws
KanimeEase(t, easing) ==
    LET found == EasingLookup(easing)
    IN  CASE found = "undefined"   -> t
          [] found = "string"      -> NaN
          [] found = "object"      -> NaN
          [] found = "false"       -> Zero
          [] found = "wrapper"     -> t
          [] found = "notcallable" -> Throw
          [] OTHER ->
             CASE easing = "linear"       -> t
               [] easing = "ease"         -> EaseInOut(t)
               [] easing = "ease-in"      -> FMul(t, t)
               [] easing = "ease-out"     -> FMul(t, FSub(Two, t))
               [] easing = "ease-in-out"  -> EaseInOut(t)
               [] easing = "cubic-in"     -> FMul(FMul(t, t), t)
               [] easing = "cubic-out"    -> CubicOut(t)
               [] easing = "cubic-in-out" -> CubicInOut(t)
               [] easing = "bounce"       -> Bounce(t)
               [] easing = "elastic"      -> Elastic(t)

(***************************************************************************)
(* Elements, style values and the inputs of a call.                        *)
(***************************************************************************)
\* A style value is a string: a numeric prefix n followed by a suffix u
\* ("100px", "0.5", "NaNpx").  Text with no numeric prefix ("auto") has
\* n = NaN and the text as u.
Css(n, u) == [n |-> n, u |-> u]

Props == {"width", "opacity"}

\* the properties of el.style the model keeps: the animated ones and
\* transition, which stop() assigns
StyleProps == Props \cup {"transition"}

\* "n0" is a member of the selection that is no Element (the constructor
\* takes any array): getComputedStyle throws a TypeError on it.
Elements == {"e1", "e2", "e3", "n0"}
Readable(el) == el # "n0"

\* the values the style sheet gives before any animation writes
BaseStyle(el, prop) ==
    CASE el = "e1" /\ prop = "width"   -> Css(FInt(100), "px")
      [] el = "e1" /\ prop = "opacity" -> Css(One, "")
      [] el = "e2" /\ prop = "width"   -> Css(FInt(50), "%")
      [] el = "e2" /\ prop = "opacity" -> Css(FDec(1, 2), "")
      [] el = "e3" /\ prop = "width"   -> Css(NaN, "auto")
      [] prop = "transition"           -> Css(NaN, "all 0s ease 0s")
      [] OTHER                         -> Css(One, "")

\* parseFloat of a style value: its numeric prefix, NaN when there is none
ParseFloat(css) == css.n

\* /^([\d.+-]+)([a-z%]*)$/i matches a finite number followed by a suffix of
\* letters or %
RegexMatch(css) == css.n.k = "fin"

\* property maps a caller passes: property -> target number
PropSpecWidth   == [p \in {"width"} |-> FInt(300)]
PropSpecOpacity == [p \in {"opacity"} |-> FDec(1, 10)]
PropSpecBoth    == [p \in Props |-> IF p = "width" THEN FInt(300) ELSE Zero]
PropSpecNaN     == [p \in {"width"} |-> NaN]

Ops == {"animate", "distAnimate", "kanime"}

EasingNames ==
    EasingTable \cup {"swing", "toString", "hasOwnProperty", "constructor",
                      "__proto__"}

Call(op, sel, props, dur, easing, cb) ==
    [op |-> op, sel |-> sel, props |-> props, dur |-> FInt(dur),
     easing |-> easing, cb |-> cb]

\* the calls the model makes: every easing on one element, every selection
\* with two easings, the durations 0 and -1000, and a non-finite target
CallInputs ==
    {Call(op, <<"e1">>, ps, 1000, ez, TRUE) :
        op \in Ops, ps \in {PropSpecWidth, PropSpecOpacity}, ez \in EasingNames}
    \cup
    {Call(op, sel, PropSpecBoth, 1000, ez, cb) :
        op \in Ops,
        sel \in {<<>>, <<"e1">>, <<"e1", "e2">>, <<"e3">>, <<"e1", "n0", "e2">>},
        ez \in {"linear", "ease-in"}, cb \in BOOLEAN}
    \cup
    {Call(op, sel, ps, dur, "linear", TRUE) :
        op \in Ops, sel \in {<<"e1">>, <<"e1", "e2">>},
        ps \in {PropSpecWidth, PropSpecBoth}, dur \in {0, -1000}}
    \cup
    {Call(op, sel, PropSpecNaN, 1000, "linear", TRUE) :
        op \in Ops, sel \in {<<"e1">>, <<"e1", "e2">>}}

\* bounds of the model
MaxCalls == 1
MaxTime  == 2000
Ticks    == {500, 1000}

(***************************************************************************)
(* State.                                                                  *)
(***************************************************************************)
VARIABLES
    clock,       \* performance.now(), in ms
    delivered,   \* whether the host has delivered a frame yet
    style,       \* style[el][prop]: the live value of the property
    calls,       \* the calls made, in order, each with its promise
    tweens,      \* one record per closure created by a call's each-callback
    rafQueue,    \* callbacks registered by requestAnimationFrame, in order
    frameQueue,  \* callbacks of the frame being delivered still to run
    frameTs,     \* the timestamp the frame being delivered passes
    form,        \* the first selected element of serialize(): its fields
    params,      \* what serialize() returned
    serializedArray, \* what serializeArray() returned
    listeners,   \* listeners[el]: the event listeners of el, in order
    onceHandlers,\* one record per onceHandler closure one() created
    dispatching, \* the dispatchEvent calls in progress, innermost last
    triggered,   \* how many times a script has called trigger()
    plugins,     \* KAnime.plugins: its own properties, in insertion order
    pluginsProto,\* the prototype of KAnime.plugins
    registered,  \* for the properties: name -> function last registered
    lastOp,      \* the last registry call and how it ended
    boxes,       \* boxes[el]: display, opacity and height of a toggled element
    effects,     \* effects[el]: the effects applied to el by the last toggle
    fxFrames,    \* callbacks the effects registered for the next frame
    fxTimers,    \* callbacks the effects registered with setTimeout
    toggled,     \* the last fadeToggle / slideToggle call
    toggles      \* how many toggle calls a script has made

animVars == <<clock, delivered, style, calls, tweens, rafQueue, frameQueue, frameTs>>
formVars == <<form, params, serializedArray>>
eventVars == <<listeners, onceHandlers, dispatching, triggered>>
pluginVars == <<plugins, pluginsProto, registered, lastOp>>
toggleVars == <<boxes, effects, fxFrames, fxTimers, toggled, toggles>>
libVars  == <<formVars, eventVars, pluginVars, toggleVars>>
vars == <<animVars, libVars>>

\* a method that has not been called has returned nothing
NotCalled == [state |-> "none", entries |-> <<>>]

\* no form is being serialized: an empty form, neither method called
FormIdle ==
    /\ form = [isForm |-> TRUE, elements |-> <<>>]
    /\ params = NotCalled
    /\ serializedArray = NotCalled

\* the elements events are dispatched on
EventTargets == {"e1", "e2"}

\* no listener is registered and no event is being dispatched
EventInit ==
    /\ listeners = [el \in EventTargets |-> <<>>]
    /\ onceHandlers = <<>>
    /\ dispatching = <<>>
    /\ triggered = 0

\* the names and values the registry calls are made with: two ordinary
\* names, a member of Object.prototype and the prototype accessor; two
\* functions and a value that is no function
PluginNames == {"a", "b", "toString", "__proto__"}
PluginFns   == {"f", "g"}
NonFns      == {"text"}

\* static plugins = {}: no own property, prototype Object.prototype
PluginInit ==
    /\ plugins = <<>>
    /\ pluginsProto = "Object.prototype"
    /\ registered = [n \in PluginNames |-> "none"]
    /\ lastOp = [op |-> "none", name |-> "", threw |-> FALSE, called |-> "none",
                 was |-> "none", changed |-> FALSE]

\* the elements the effects are applied to, and no toggle made yet
ToggleEls == {"t1", "t2"}

NoEffects ==
    /\ effects = [el \in ToggleEls |-> <<>>]
    /\ fxFrames = <<>>
    /\ fxTimers = <<>>
    /\ toggled = [kind |-> "none", sel |-> <<>>, hidden |-> {}, idle |-> TRUE]
    /\ toggles = 0

Box(display) == [display |-> display, opacity |-> "1", height |-> "auto"]

ToggleIdle ==
    /\ boxes = [el \in ToggleEls |-> Box("block")]
    /\ NoEffects

LibInit == FormIdle /\ EventInit /\ PluginInit /\ ToggleIdle

AnimInit ==
    /\ clock = 0
    /\ delivered = FALSE
    /\ style = [el \in Elements |-> [p \in StyleProps |-> BaseStyle(el, p)]]
    /\ calls = <<>>
    /\ tweens = <<>>
    /\ rafQueue = <<>>
    /\ frameQueue = <<>>
    /\ frameTs = 0

Init == AnimInit /\ LibInit

(***************************************************************************)
(* animate / kanime: the set-up each call runs for every selected element. *)
(***************************************************************************)
\* this.elements.forEach(callback): an exception thrown by the callback
\* leaves forEach, so the callback completes for the elements before the
\* first one whose computed style cannot be read
RECURSIVE Visited(_)
Visited(sel) ==
    IF sel = <<>> THEN <<>>
    ELSE IF ~Readable(Head(sel)) THEN <<>>
    ELSE <<Head(sel)>> \o Visited(Tail(sel))

\* mutant: a call on an empty selection throws
ThrewOrEmpty(sel, seen) == Len(seen) < Len(sel) \/ sel = <<>>

\* forEach was left by an exception: the callback did not complete for
\* every element of the selection
Threw(sel, seen) == Len(seen) < Len(sel)

\* startStyles[prop] = parseFloat(getComputedStyle(el)[prop]) || 0
AnimateStart(el, prop) ==
    LET v == ParseFloat(style[el][prop])
    IN  IF Truthy(v) THEN v ELSE Zero

\* start[prop] = match ? parseFloat(match[1]) : 0
KanimeStart(el, prop) ==
    IF RegexMatch(style[el][prop]) THEN ParseFloat(style[el][prop]) ELSE Zero

\* units[prop] = match ? match[2] : ""
KanimeUnit(el, prop) ==
    IF RegexMatch(style[el][prop]) THEN style[el][prop].u ELSE ""

\* end[prop] = parseFloat(properties[prop]): the number is printed and read
\* back, which gives the same number (NaN for NaN, Infinity for Infinity)
KanimeEnd(v) == IF v.k \in {"fin", "inf", "nan"} THEN v ELSE NaN

\* mutant: 'px' appended to every property
AnimateUnitAlways(prop) == "px"

\* the suffix animate appends: prop === 'opacity' ? '' : 'px'
AnimateUnit(prop) == IF prop = "opacity" THEN "" ELSE "px"

\* the closure state one each-callback creates for el
NewTween(c, callNo, el) ==
    [call      |-> callNo,
     el        |-> el,
     start     |-> [p \in DOMAIN c.props |->
                      IF c.op = "kanime" THEN KanimeStart(el, p)
                      ELSE AnimateStart(el, p)],
     end       |-> [p \in DOMAIN c.props |->
                      IF c.op = "kanime" THEN KanimeEnd(c.props[p])
                      ELSE c.props[p]],
     unit      |-> [p \in DOMAIN c.props |->
                      IF c.op = "kanime" THEN KanimeUnit(el, p)
                      ELSE AnimateUnit(p)],
     startTime |-> IF c.op = "kanime" THEN FInt(clock) ELSE Undef,
     state     |-> "scheduled",
     progress  |-> Undef,
     eased     |-> Undef,
     signals   |-> 0,
     cbRuns    |-> 0,
     \* history of the loop, read by the properties only
     frames    |-> 0,
     firstTs   |-> Undef,
     ts        |-> Undef,
     computed  |-> [p \in DOMAIN c.props |-> style[el][p]],
     stopAt    |-> -1,
     pokedAt   |-> -1,
     stWrites  |-> IF c.op = "kanime" THEN 1 ELSE 0,
     last      |-> [p \in DOMAIN c.props |-> Css(Undef, "")]]

\* mutant: a call cancels the frame requests of the loops that run on the
\* elements it animates
RequestedCancelling(seen, first) ==
    SelectSeq(rafQueue,
              LAMBDA i : \A k \in 1..Len(seen) : tweens[i].el # seen[k])
    \o [i \in 1..Len(seen) |-> first + i]

\* requestAnimationFrame(step) for every element visited: the new loops'
\* callbacks join the ones already requested
Requested(seen, first) == rafQueue \o [i \in 1..Len(seen) |-> first + i]

\* the promise animate returns: the executor's exception rejects it;
\* distAnimate and kanime return this and let the exception reach the caller
SetUp(c) ==
    LET callNo == Len(calls) + 1
        seen   == Visited(c.sel)
        threw  == Threw(c.sel, seen)
        first  == Len(tweens)
    IN  /\ frameQueue = <<>>
        /\ calls' = Append(calls,
              [op |-> c.op, sel |-> c.sel, props |-> c.props,
               dur |-> c.dur, easing |-> c.easing, cb |-> c.cb,
               promise |-> IF c.op # "animate" THEN "none"
                           ELSE IF threw THEN "rejected" ELSE "pending",
               thrown  |-> c.op # "animate" /\ threw])
        /\ tweens' = tweens \o [i \in 1..Len(seen) |-> NewTween(c, callNo, seen[i])]
        /\ rafQueue' = Requested(seen, first)
        /\ UNCHANGED <<clock, delivered, style, frameQueue, frameTs, libVars>>

\* a call, while the behaviour has calls left
StartCall(c) == Len(calls) < MaxCalls /\ SetUp(c)

\* The first call of a behaviour is any of the given calls; a later call
\* repeats the first one's arguments on one element.
InputsFrom(given) ==
    IF calls = <<>> THEN given
    ELSE {[op |-> calls[1].op, sel |-> sel, props |-> calls[1].props,
           dur |-> calls[1].dur, easing |-> calls[1].easing,
           cb |-> calls[1].cb] : sel \in {<<"e1">>, <<"e2">>}}

Inputs == InputsFrom(CallInputs)

Animate     == \E c \in Inputs : c.op = "animate" /\ StartCall(c)
DistAnimate == \E c \in Inputs : c.op = "distAnimate" /\ StartCall(c)
Kanime      == \E c \in Inputs : c.op = "kanime" /\ StartCall(c)

(***************************************************************************)
(* The host's frame driver.                                                *)
(***************************************************************************)
\* Time passes while no callback is registered, by one of the given steps
\* and up to the given limit.
TickBy(steps, limit) ==
    /\ frameQueue = <<>>
    /\ rafQueue = <<>>
    /\ \E dt \in steps :
          /\ clock + dt <= limit
          /\ clock' = clock + dt
    /\ UNCHANGED <<delivered, style, calls, tweens, rafQueue, frameQueue, frameTs, libVars>>

Tick == TickBy(Ticks, MaxTime)

\* A frame begins: the callbacks registered so far are the ones it runs, all
\* with the same timestamp.  The first frame the host delivers may carry the
\* current clock value (a driver simulated from t = 0 delivers 0); every
\* later frame is strictly later than the one before.
BeginFrameBy(steps, limit) ==
    /\ frameQueue = <<>>
    /\ rafQueue # <<>>
    /\ \E dt \in steps \cup (IF delivered THEN {} ELSE {0}) :
          /\ clock + dt <= limit
          /\ clock' = clock + dt
          /\ frameTs' = clock + dt
    /\ delivered' = TRUE
    /\ frameQueue' = rafQueue
    /\ rafQueue' = <<>>
    /\ UNCHANGED <<style, calls, tweens, libVars>>

BeginFrame == BeginFrameBy(Ticks, MaxTime)

(***************************************************************************)
(* The frame callbacks.                                                    *)
(***************************************************************************)
\* currentValue = startValue + (endValue - startValue) * easeProgress
Interpolate(startValue, endValue, eased) ==
    FAdd(startValue, FMul(FSub(endValue, startValue), eased))

\* mutant: a frame interpolates from the live value of the property
WrittenFromLive(tw, eased) ==
    [p \in DOMAIN tw.end |->
        Css(Interpolate(ParseFloat(style[tw.el][p]), tw.end[p], eased),
            tw.unit[p])]

\* value + unit, the string a frame assigns to el.style[prop]
Written(tw, eased) ==
    [p \in DOMAIN tw.end |->
        Css(Interpolate(tw.start[p], tw.end[p], eased), tw.unit[p])]

\* mutant: the element is a variable the closures share, so a frame writes
\* the values to every element
WriteStylesShared(tw, eased) ==
    [el \in Elements |->
        [p \in StyleProps |->
            IF p \in DOMAIN tw.end THEN Written(tw, eased)[p] ELSE style[el][p]]]

\* el.style[prop] = value + unit, for every prop of the call
WriteStyles(tw, eased) ==
    [style EXCEPT ![tw.el] =
        [p \in StyleProps |->
            IF p \in DOMAIN tw.end THEN Written(tw, eased)[p] ELSE @[p]]]

\* if (!startTime) startTime = timestamp
LazyStartTime(startTime, timestamp) ==
    IF ~Truthy(startTime) THEN timestamp ELSE startTime

\* whether a frame executes startTime = timestamp: step does when
\* !startTime holds; kanime's startTime is a const set before the loop
Assigns(op, startTime) == op # "kanime" /\ ~Truthy(startTime)

\* Math.min((timestamp - startTime) / duration, 1)
Progress(timestamp, startTime, duration) ==
    FMin(FDiv(FSub(timestamp, startTime), duration), One)

\* mutant: the test written as !(progress >= 1), which NaN passes
RescheduleUnlessDone(progress) ==
    ~(progress.k = "nan") => FLess(progress, One)

\* mutant: every frame requests another one
RescheduleAlways(progress) == TRUE

\* progress < 1: requestAnimationFrame(step) again
Reschedule(progress) == FLess(progress, One)

\* mutant: the completion signal called on every frame
SignalsEveryFrame(signals, fire) == signals + 1

\* the completion branch calls the completion signal once
SignalsAfter(signals, fire) == IF fire THEN signals + 1 ELSE signals

\* the closure after a frame that wrote its values
AfterFrame(tw, ts, st, pr, eased, more, fire, ran) ==
    [tw EXCEPT !.startTime = st,
               !.progress = pr,
               !.eased = eased,
               !.state = IF more THEN "scheduled" ELSE "completed",
               !.signals = SignalsAfter(@, fire),
               !.cbRuns = IF ran THEN @ + 1 ELSE @,
               !.frames = @ + 1,
               !.firstTs = IF tw.frames = 0 THEN ts ELSE @,
               !.ts = ts,
               !.stWrites = IF Assigns(calls[tw.call].op, tw.startTime)
                            THEN @ + 1 ELSE @,
               !.last = Written(tw, eased)]

\* resolve(): settles a pending promise, no effect on a settled one
Resolve(promise) == IF promise = "pending" THEN "fulfilled" ELSE promise

\* step(timestamp) of animate in src/src/index.js
Step ==
    /\ frameQueue # <<>>
    /\ LET i  == Head(frameQueue)
           tw == tweens[i]
           c  == calls[tw.call]
           st == LazyStartTime(tw.startTime, FInt(frameTs))
           pr == Progress(FInt(frameTs), st, c.dur)
           more == Reschedule(pr)
       IN  /\ c.op = "animate"
           /\ style' = WriteStyles(tw, Ease(pr, c.easing))
           /\ tweens' = [tweens EXCEPT ![i] =
                 AfterFrame(tw, FInt(frameTs), st, pr, Ease(pr, c.easing),
                            more, ~more, FALSE)]
           /\ rafQueue' = IF more THEN Append(rafQueue, i) ELSE rafQueue
           /\ calls' = IF more THEN calls
                       ELSE [calls EXCEPT ![tw.call].promise = Resolve(@)]
    /\ frameQueue' = Tail(frameQueue)
    /\ UNCHANGED <<clock, delivered, frameTs, libVars>>

\* u(n) of animate in class g of src/dist/kanime.es.js; l is the callback
\* argument, an empty function when the caller passes none
DistStep ==
    /\ frameQueue # <<>>
    /\ LET i  == Head(frameQueue)
           tw == tweens[i]
           c  == calls[tw.call]
           st == LazyStartTime(tw.startTime, FInt(frameTs))
           pr == Progress(FInt(frameTs), st, c.dur)
           more == Reschedule(pr)
       IN  /\ c.op = "distAnimate"
           /\ style' = WriteStyles(tw, Ease(pr, c.easing))
           /\ tweens' = [tweens EXCEPT ![i] =
                 AfterFrame(tw, FInt(frameTs), st, pr, Ease(pr, c.easing),
                            more, ~more, ~more /\ c.cb)]
           /\ rafQueue' = IF more THEN Append(rafQueue, i) ELSE rafQueue
    /\ frameQueue' = Tail(frameQueue)
    /\ UNCHANGED <<clock, delivered, frameTs, calls, libVars>>

\* Math.min(1, elapsed / duration)
KanimeProgress(now, startTime, duration) ==
    FMin(One, FDiv(FSub(now, startTime), duration))

\* animateFrame(now) of kanime in class KAnime of src/dist/kanime.es.js.
\* When easings[easing](t) throws, the callback ends there: nothing is
\* written, no frame is requested and the callback is not called.
AnimateFrame ==
    /\ frameQueue # <<>>
    /\ LET i  == Head(frameQueue)
           tw == tweens[i]
           c  == calls[tw.call]
           t  == KanimeProgress(FInt(frameTs), tw.startTime, c.dur)
           easeT == KanimeEase(t, c.easing)
           more == Reschedule(t)
           fire == ~more /\ c.cb
       IN  /\ c.op = "kanime"
           /\ IF easeT = Throw
              THEN /\ tweens' = [tweens EXCEPT ![i] =
                         [@ EXCEPT !.progress = t, !.eased = Throw,
                                   !.state = "threw", !.frames = @ + 1,
                                   !.firstTs = IF tw.frames = 0
                                               THEN FInt(frameTs) ELSE @,
                                   !.ts = FInt(frameTs)]]
                   /\ UNCHANGED <<style, rafQueue>>
              ELSE /\ style' = WriteStyles(tw, easeT)
                   /\ tweens' = [tweens EXCEPT ![i] =
                         AfterFrame(tw, FInt(frameTs), tw.startTime, t, easeT,
                                    more, fire, fire)]
                   /\ rafQueue' = IF more THEN Append(rafQueue, i) ELSE rafQueue
    /\ frameQueue' = Tail(frameQueue)
    /\ UNCHANGED <<clock, delivered, frameTs, calls, libVars>>

Next ==
    \/ Animate
    \/ DistAnimate
    \/ Kanime
    \/ Tick
    \/ BeginFrame
    \/ Step
    \/ DistStep
    \/ AnimateFrame

Spec == Init /\ [][Next]_vars

(***************************************************************************)
(* The same loops driven frame by frame: a frame every 100 ms, durations   *)
(* of 200 and 800 ms, so that the progress of a frame takes the values     *)
(* 0, 1/8, ..., 1.                                                          *)
(***************************************************************************)
FineTicks == {100}
MaxFineTime == 1000

PropSpecFade == [p \in {"opacity"} |-> Zero]

FineInputs ==
    {Call(op, <<"e1">>, PropSpecFade, 200, ez, TRUE) :
        op \in Ops, ez \in {"linear", "ease-in"}}
    \cup
    {Call(op, <<"e1">>, PropSpecWidth, 800, ez, TRUE) :
        op \in Ops, ez \in {"linear", "ease-in", "ease-out", "ease-in-out"}}

FineAnimate ==
    \E c \in InputsFrom(FineInputs) : c.op = "animate" /\ StartCall(c)
FineDistAnimate ==
    \E c \in InputsFrom(FineInputs) : c.op = "distAnimate" /\ StartCall(c)
FineKanime ==
    \E c \in InputsFrom(FineInputs) : c.op = "kanime" /\ StartCall(c)

FineTick == TickBy(FineTicks, MaxFineTime)
FineBeginFrame == BeginFrameBy(FineTicks, MaxFineTime)

FineNext ==
    \/ FineAnimate
    \/ FineDistAnimate
    \/ FineKanime
    \/ FineTick
    \/ FineBeginFrame
    \/ Step
    \/ DistStep
    \/ AnimateFrame

SpecFine == Init /\ [][FineNext]_vars

(***************************************************************************)
(* Animations started one after another: a behaviour makes one call more   *)
(* than MaxCalls, each on one element, on the same element or on another.  *)
(***************************************************************************)
PairInputs ==
    {Call(op, sel, PropSpecBoth, 1000, ez, TRUE) :
        op \in Ops, sel \in {<<"e1">>, <<"e2">>}, ez \in {"linear", "ease-in"}}

PairStart(c) == Len(calls) < MaxCalls + 1 /\ SetUp(c)

PairAnimate ==
    \E c \in InputsFrom(PairInputs) : c.op = "animate" /\ PairStart(c)
PairDistAnimate ==
    \E c \in InputsFrom(PairInputs) : c.op = "distAnimate" /\ PairStart(c)
PairKanime ==
    \E c \in InputsFrom(PairInputs) : c.op = "kanime" /\ PairStart(c)

PairNext ==
    \/ PairAnimate
    \/ PairDistAnimate
    \/ PairKanime
    \/ Tick
    \/ BeginFrame
    \/ Step
    \/ DistStep
    \/ AnimateFrame

SpecPair == Init /\ [][PairNext]_vars

(***************************************************************************)
(* stop().                                                                 *)
(***************************************************************************)
Range(seq) == {seq[k] : k \in 1..Len(seq)}

\* stop(): el.style.transition = 'none' for every selected element.  It
\* cancels no frame request and clears no timer.  stopAt notes, for the
\* properties, how many frames each loop on a selected element had run.
Stop ==
    /\ frameQueue = <<>>
    /\ tweens # <<>>
    /\ \E sel \in {<<"e1">>, <<"e1", "e2">>} :
          /\ style' = [el \in Elements |->
                IF el \in Range(sel)
                THEN [style[el] EXCEPT !["transition"] = Css(NaN, "none")]
                ELSE style[el]]
          /\ tweens' = [i \in 1..Len(tweens) |->
                IF tweens[i].el \in Range(sel)
                THEN [tweens[i] EXCEPT !.stopAt = tweens[i].frames]
                ELSE tweens[i]]
    /\ UNCHANGED <<clock, delivered, calls, rafQueue, frameQueue, frameTs, libVars>>

\* Other code assigns a property of e1 between two frames, once per running
\* loop.  pokedAt notes how many frames each loop animating that property of
\* e1 had run.
ForeignValue(prop) ==
    IF prop = "opacity" THEN Css(FDec(1, 4), "") ELSE Css(FInt(7), "px")

ForeignWrite ==
    /\ frameQueue = <<>>
    /\ tweens # <<>>
    /\ \E prop \in Props :
          /\ \E i \in 1..Len(tweens) :
                /\ tweens[i].el = "e1"
                /\ prop \in DOMAIN tweens[i].end
                /\ tweens[i].pokedAt = -1
          /\ style' = [style EXCEPT !["e1"][prop] = ForeignValue(prop)]
          /\ tweens' = [i \in 1..Len(tweens) |->
                IF tweens[i].el = "e1" /\ prop \in DOMAIN tweens[i].end
                THEN [tweens[i] EXCEPT !.pokedAt = tweens[i].frames]
                ELSE tweens[i]]
    /\ UNCHANGED <<clock, delivered, calls, rafQueue, frameQueue, frameTs, libVars>>

StopAnimate ==
    \E c \in InputsFrom(PairInputs) : c.op = "animate" /\ StartCall(c)
StopDistAnimate ==
    \E c \in InputsFrom(PairInputs) : c.op = "distAnimate" /\ StartCall(c)
StopKanime ==
    \E c \in InputsFrom(PairInputs) : c.op = "kanime" /\ StartCall(c)

StopNext ==
    \/ StopAnimate
    \/ StopDistAnimate
    \/ StopKanime
    \/ Stop
    \/ Tick
    \/ BeginFrame
    \/ Step
    \/ DistStep
    \/ AnimateFrame

SpecStop == Init /\ [][StopNext]_vars

\* animations of e1 with other code writing to e1 between the frames
PokeInputs == {c \in PairInputs : c.sel = <<"e1">>}

PokeAnimate ==
    \E c \in InputsFrom(PokeInputs) : c.op = "animate" /\ StartCall(c)
PokeDistAnimate ==
    \E c \in InputsFrom(PokeInputs) : c.op = "distAnimate" /\ StartCall(c)
PokeKanime ==
    \E c \in InputsFrom(PokeInputs) : c.op = "kanime" /\ StartCall(c)

PokeNext ==
    \/ PokeAnimate
    \/ PokeDistAnimate
    \/ PokeKanime
    \/ ForeignWrite
    \/ Tick
    \/ BeginFrame
    \/ Step
    \/ DistStep
    \/ AnimateFrame

SpecPoke == Init /\ [][PokeNext]_vars

(***************************************************************************)
(* Forms: serialize() and serializeArray().                                *)
(***************************************************************************)
MaxFields == 2

FieldNames  == {"", "a"}
FieldValues == {"v", "a b"}

\* the controls of form.elements: text inputs, checkboxes and radios, with
\* the properties the two methods read
Fields ==
    [name : FieldNames, type : {"text"}, disabled : BOOLEAN,
     checked : {FALSE}, value : FieldValues]
    \cup
    [name : FieldNames, type : {"checkbox", "radio"}, disabled : BOOLEAN,
     checked : BOOLEAN, value : FieldValues]

\* this.elements[0]: a form with up to MaxFields controls, or an element
\* that is no form
Forms ==
    {[isForm |-> TRUE, elements |-> els] :
        els \in UNION {[1..n -> Fields] : n \in 0..MaxFields}}
    \cup {[isForm |-> FALSE, elements |-> <<>>]}

\* URLSearchParams.toString(): application/x-www-form-urlencoded, where a
\* space is written as "+"
UrlEncode(text) == IF text = "a b" THEN "a+b" ELSE text

\* the test both methods apply to a control:
\* !el.disabled && el.name, and el.checked for a checkbox or radio
Appended(el) ==
    /\ ~el.disabled
    /\ el.name # ""
    /\ el.type \in {"checkbox", "radio"} => el.checked

Thrown == [state |-> "thrown", entries |-> <<>>]
Returned(entries) == [state |-> "returned", entries |-> entries]

\* serialize(): the name=value pairs of params.toString(), in order
Serialize ==
    /\ params = NotCalled
    /\ params' =
          IF ~form.isForm THEN Thrown
          ELSE LET kept == SelectSeq(form.elements, Appended)
               IN  Returned([k \in 1..Len(kept) |->
                               [name  |-> UrlEncode(kept[k].name),
                                value |-> UrlEncode(kept[k].value)]])
    /\ UNCHANGED <<form, serializedArray, animVars, toggleVars, eventVars, pluginVars>>

\* serializeArray(): the {name, value} objects pushed, in order
SerializeArray ==
    /\ serializedArray = NotCalled
    /\ serializedArray' =
          IF ~form.isForm THEN Thrown
          ELSE LET kept == SelectSeq(form.elements, Appended)
               IN  Returned([k \in 1..Len(kept) |->
                               [name |-> kept[k].name, value |-> kept[k].value]])
    /\ UNCHANGED <<form, params, animVars, toggleVars, eventVars, pluginVars>>

\* any form, before either method is called
FormInit ==
    /\ AnimInit
    /\ EventInit
    /\ PluginInit
    /\ ToggleIdle
    /\ form \in Forms
    /\ params = NotCalled
    /\ serializedArray = NotCalled

FormNext == Serialize \/ SerializeArray

SpecForm == FormInit /\ [][FormNext]_vars

(***************************************************************************)
(* Events: one() and trigger().                                            *)
(***************************************************************************)
MaxListeners == 2
MaxTriggers  == 3

\* what the handler passed to one() does when it runs: return, throw, or
\* call trigger() for the same event on its element the first time it runs
HandlerKinds == {"return", "throw", "trigger"}

Without(seq, id) == SelectSeq(seq, LAMBDA x : x # id)

\* one(event, handler), kOnce in the dist build: for every selected element
\* a new onceHandler closure, added as a listener
Once ==
    /\ dispatching = <<>>
    /\ \E sel \in {<<"e1">>, <<"e2">>, <<"e1", "e2">>}, kind \in HandlerKinds :
          LET first == Len(onceHandlers)
          IN  /\ first + Len(sel) <= MaxListeners
              /\ onceHandlers' = onceHandlers \o
                    [k \in 1..Len(sel) |-> [el |-> sel[k], kind |-> kind, runs |-> 0]]
              /\ listeners' = [el \in EventTargets |->
                    IF \E k \in 1..Len(sel) : sel[k] = el
                    THEN Append(listeners[el],
                                first + CHOOSE k \in 1..Len(sel) : sel[k] = el)
                    ELSE listeners[el]]
    /\ UNCHANGED <<dispatching, triggered, animVars, toggleVars, formVars, pluginVars>>

\* el.dispatchEvent(evt): the listeners el has at this moment are the ones
\* the dispatch will invoke, in order
Dispatch(el) == [el |-> el, queue |-> listeners[el], running |-> 0]

\* trigger(event) called by a script on one element
Trigger ==
    /\ dispatching = <<>>
    /\ triggered < MaxTriggers
    /\ \E el \in EventTargets : dispatching' = <<Dispatch(el)>>
    /\ triggered' = triggered + 1
    /\ UNCHANGED <<listeners, onceHandlers, animVars, toggleVars, formVars, pluginVars>>

\* The innermost dispatch invokes its next listener, unless the listener
\* has been removed since the dispatch began.  onceHandler calls handler(e)
\* and removes itself after the handler has returned: a handler that throws
\* leaves it registered, and a handler that calls trigger() starts a nested
\* dispatch while it is still registered.
OnceHandler ==
    /\ dispatching # <<>>
    /\ LET top == Len(dispatching)
           d   == dispatching[top]
       IN  /\ d.running = 0
           /\ d.queue # <<>>
           /\ LET id   == Head(d.queue)
                  h    == onceHandlers[id]
                  live == \E k \in 1..Len(listeners[d.el]) : listeners[d.el][k] = id
                  next == [d EXCEPT !.queue = Tail(@)]
              IN  IF ~live
                  THEN /\ dispatching' = [dispatching EXCEPT ![top] = next]
                       /\ UNCHANGED <<listeners, onceHandlers>>
                  ELSE /\ onceHandlers' = [onceHandlers EXCEPT ![id].runs = @ + 1]
                       /\ IF h.kind = "trigger" /\ h.runs = 0
                          THEN /\ dispatching' =
                                     Append([dispatching EXCEPT ![top].running = id],
                                            Dispatch(d.el))
                               /\ UNCHANGED listeners
                          ELSE /\ dispatching' = [dispatching EXCEPT ![top] = next]
                               /\ listeners' =
                                     IF h.kind = "throw" THEN listeners
                                     ELSE [listeners EXCEPT ![d.el] = Without(@, id)]
    /\ UNCHANGED <<triggered, animVars, toggleVars, formVars, pluginVars>>

\* The innermost dispatch has invoked all its listeners: dispatchEvent
\* returns.  If it was called by a handler, the handler returns and its
\* onceHandler goes on to el.removeEventListener(event, onceHandler).
DispatchReturns ==
    /\ dispatching # <<>>
    /\ LET top == Len(dispatching)
           d   == dispatching[top]
       IN  /\ d.running = 0
           /\ d.queue = <<>>
           /\ IF top = 1
              THEN /\ dispatching' = <<>>
                   /\ UNCHANGED listeners
              ELSE LET outer == dispatching[top - 1]
                   IN  /\ dispatching' =
                             [SubSeq(dispatching, 1, top - 1) EXCEPT ![top - 1] =
                                 [outer EXCEPT !.running = 0, !.queue = Tail(@)]]
                       /\ listeners' =
                             [listeners EXCEPT ![outer.el] = Without(@, outer.running)]
    /\ UNCHANGED <<onceHandlers, triggered, animVars, toggleVars, formVars, pluginVars>>

EventNext == Once \/ Trigger \/ OnceHandler \/ DispatchReturns

SpecEvents == Init /\ [][EventNext]_vars

(***************************************************************************)
(* The plugin registry: use, callPlugin, listPlugins, removePlugin.        *)
(***************************************************************************)
HasOwn(name) == \E k \in 1..Len(plugins) : plugins[k].name = name
OwnValue(name) == plugins[CHOOSE k \in 1..Len(plugins) : plugins[k].name = name].fn

\* this.plugins[pluginName], an ordinary property read: "__proto__" reads
\* the prototype, an own property its value, "toString" the method
\* inherited through the prototype, any other name undefined
Lookup(name) ==
    CASE name = "__proto__" -> pluginsProto
      [] HasOwn(name)       -> OwnValue(name)
      [] name = "toString"  -> "inherited toString"
      [] OTHER              -> "undefined"

\* if (this.plugins[pluginName])
Found(name) == Lookup(name) # "undefined"

\* this.plugins[pluginName] = pluginFunction: "__proto__" sets the
\* prototype (a function is an object); another name sets an own property,
\* which keeps its place if it exists
Assigned(name, fn) ==
    IF HasOwn(name)
    THEN [k \in 1..Len(plugins) |->
            IF plugins[k].name = name THEN [name |-> name, fn |-> fn]
            ELSE plugins[k]]
    ELSE Append(plugins, [name |-> name, fn |-> fn])

\* Object.keys(this.plugins)
ListPlugins == [k \in 1..Len(plugins) |-> plugins[k].name]

Outcome(op, name, threw, called, changed) ==
    [op |-> op, name |-> name, threw |-> threw, called |-> called,
     was |-> registered[name], changed |-> changed]

\* KAnime.use(pluginName, pluginFunction)
Use ==
    \E name \in PluginNames, fn \in PluginFns \cup NonFns :
        IF fn \in NonFns
        THEN /\ lastOp' = Outcome("useNonFunction", name, TRUE, "none", FALSE)
             /\ UNCHANGED <<plugins, pluginsProto, registered, animVars, toggleVars,
                            formVars, eventVars>>
        ELSE /\ IF name = "__proto__"
                THEN pluginsProto' = fn /\ UNCHANGED plugins
                ELSE plugins' = Assigned(name, fn) /\ UNCHANGED pluginsProto
             /\ registered' = [registered EXCEPT ![name] = fn]
             /\ lastOp' = Outcome("use", name, FALSE, "none", TRUE)
             /\ UNCHANGED <<animVars, toggleVars, formVars, eventVars>>

\* KAnime.callPlugin(pluginName): what is found is called.  A registered
\* function runs; Object.prototype is no function, so calling it throws a
\* TypeError; the inherited toString runs and returns a string when it is
\* Object.prototype's, and throws when the prototype is a function, whose
\* toString refuses a receiver that is no function.
CallPlugin ==
    \E name \in PluginNames :
        LET v == Lookup(name)
        IN  /\ lastOp' =
                  CASE v = "undefined" ->
                          Outcome("callPlugin", name, TRUE, "none", FALSE)
                    [] v = "Object.prototype" ->
                          Outcome("callPlugin", name, TRUE, "none", FALSE)
                    [] v = "inherited toString" ->
                          Outcome("callPlugin", name,
                                  pluginsProto # "Object.prototype", v, FALSE)
                    [] OTHER ->
                          Outcome("callPlugin", name, FALSE, v, FALSE)
            /\ UNCHANGED <<plugins, pluginsProto, registered, animVars, toggleVars,
                           formVars, eventVars>>

\* KAnime.removePlugin(pluginName): delete removes an own property and does
\* nothing, without an error, when there is none
RemovePlugin ==
    \E name \in PluginNames :
        /\ IF Found(name)
           THEN /\ plugins' = SelectSeq(plugins, LAMBDA x : x.name # name)
                /\ lastOp' = Outcome("removePlugin", name, FALSE, "none",
                                     HasOwn(name))
           ELSE /\ lastOp' = Outcome("removePlugin", name, TRUE, "none", FALSE)
                /\ UNCHANGED plugins
        /\ registered' = [registered EXCEPT ![name] = "none"]
        /\ UNCHANGED <<pluginsProto, animVars, toggleVars, formVars, eventVars>>

PluginNext == Use \/ CallPlugin \/ RemovePlugin

SpecPlugins == Init /\ [][PluginNext]_vars

(***************************************************************************)
(* The CSS-transition effects and their toggles: fadeIn, fadeOut, slideUp, *)
(* slideDown, fadeToggle, slideToggle.                                     *)
(***************************************************************************)
MaxToggles == 2

\* the selections the toggles are called on
ToggleSels == {<<"t1">>, <<"t2">>, <<"t1", "t2">>, <<"t2", "t1">>}

\* slideUp returns at once for an element that is not displayed, slideDown
\* for one that is; the fades have no early return
Touches(effect, box) ==
    CASE effect = "slideUp"   -> box.display # "none"
      [] effect = "slideDown" -> box.display = "none"
      [] OTHER                -> TRUE

\* what the each-callback of an effect assigns before it requests a frame
Begun(effect, box) ==
    CASE effect = "fadeIn" ->
            IF box.display = "none"
            THEN [box EXCEPT !.display = "block", !.opacity = "0"]
            ELSE box
      [] effect = "fadeOut"   -> [box EXCEPT !.opacity = "1"]
      [] effect = "slideUp"   -> [box EXCEPT !.height = "px"]
      [] effect = "slideDown" -> [box EXCEPT !.display = "block", !.height = "0"]

\* this.fadeIn(), this.fadeOut(), this.slideUp(), this.slideDown(): the
\* effect runs over every element of the selection
Effect(effect, sel, st) ==
    LET runs(cb) == Touches(effect, st.boxes[cb.el])
        on(el)   == el \in Range(sel) /\ Touches(effect, st.boxes[el])
    IN  [boxes   |-> [el \in ToggleEls |->
                        IF on(el) THEN Begun(effect, st.boxes[el])
                        ELSE st.boxes[el]],
         effects |-> [el \in ToggleEls |->
                        IF on(el) THEN Append(st.effects[el], effect)
                        ELSE st.effects[el]],
         frames  |-> st.frames \o
                     SelectSeq([k \in 1..Len(sel) |-> [fx |-> effect, el |-> sel[k]]],
                               runs)]

\* the each-callback of a toggle, for the elements from position k on: it
\* reads the display of its element and calls the effect on this
RECURSIVE ToggleEach(_, _, _, _)
ToggleEach(kind, sel, k, st) ==
    IF k > Len(sel) THEN st
    ELSE LET isHidden == st.boxes[sel[k]].display = "none"
             effect   == IF kind = "fade"
                         THEN IF isHidden THEN "fadeIn" ELSE "fadeOut"
                         ELSE IF isHidden THEN "slideDown" ELSE "slideUp"
         IN  ToggleEach(kind, sel, k + 1, Effect(effect, sel, st))

ToggleCall(kind) ==
    /\ \E sel \in ToggleSels :
          LET st == ToggleEach(kind, sel, 1,
                       [boxes   |-> boxes,
                        effects |-> [el \in ToggleEls |-> <<>>],
                        frames  |-> fxFrames])
          IN  /\ boxes' = st.boxes
              /\ effects' = st.effects
              /\ fxFrames' = st.frames
              /\ toggled' = [kind   |-> kind,
                             sel    |-> sel,
                             hidden |-> {el \in Range(sel) : boxes[el].display = "none"},
                             idle   |-> fxFrames = <<>> /\ fxTimers = <<>>]
    /\ toggles' = toggles + 1
    /\ UNCHANGED <<fxTimers, animVars, formVars, eventVars, pluginVars>>

FadeToggle == toggles < MaxToggles /\ ToggleCall("fade")
SlideToggle == toggles < MaxToggles /\ ToggleCall("slide")

\* the frame callback of an effect; all but fadeIn's start a timer
Framed(fx, box) ==
    CASE fx = "fadeIn"    -> [box EXCEPT !.opacity = "1"]
      [] fx = "fadeOut"   -> [box EXCEPT !.opacity = "0"]
      [] fx = "slideUp"   -> [box EXCEPT !.height = "0"]
      [] fx = "slideDown" -> [box EXCEPT !.height = "px"]

RECURSIVE RunFrames(_, _)
RunFrames(queue, st) ==
    IF queue = <<>> THEN st
    ELSE LET cb == Head(queue)
         IN  RunFrames(Tail(queue),
                [boxes  |-> [st.boxes EXCEPT ![cb.el] = Framed(cb.fx, @)],
                 timers |-> IF cb.fx = "fadeIn" THEN st.timers
                            ELSE Append(st.timers, cb)])

\* the host delivers a frame: every callback registered so far runs
FxFrame ==
    /\ fxFrames # <<>>
    /\ LET st == RunFrames(fxFrames, [boxes |-> boxes, timers |-> fxTimers])
       IN  /\ boxes' = st.boxes
           /\ fxTimers' = st.timers
    /\ fxFrames' = <<>>
    /\ UNCHANGED <<effects, toggled, toggles, animVars, formVars, eventVars, pluginVars>>

\* the setTimeout callback of an effect
Timed(fx, box) ==
    CASE fx = "fadeOut"   -> [box EXCEPT !.display = "none"]
      [] fx = "slideUp"   -> [box EXCEPT !.display = "none", !.height = "auto"]
      [] fx = "slideDown" -> [box EXCEPT !.height = "auto"]

\* the timers all wait this.duration, so they run in the order they were set
FxTimer ==
    /\ fxTimers # <<>>
    /\ boxes' = [boxes EXCEPT ![Head(fxTimers).el] = Timed(Head(fxTimers).fx, @)]
    /\ fxTimers' = Tail(fxTimers)
    /\ UNCHANGED <<effects, fxFrames, toggled, toggles, animVars, formVars, eventVars, pluginVars>>

\* the page shows or hides each element before any script runs
ToggleInit ==
    /\ AnimInit
    /\ FormIdle
    /\ EventInit
    /\ PluginInit
    /\ boxes \in [ToggleEls -> {Box("none"), Box("block")}]
    /\ NoEffects

ToggleNext == FadeToggle \/ SlideToggle \/ FxFrame \/ FxTimer

SpecToggle == ToggleInit /\ [][ToggleNext]_vars

(***************************************************************************)
(* Properties.                                                             *)
(***************************************************************************)
TweenIds == 1..Len(tweens)
CallOf(i) == calls[tweens[i].call]
Positive(d) == FLess(Zero, d)
Finite(v) == v.k = "fin"
FiniteEnds(c) == \A p \in DOMAIN c.props : Finite(c.props[p])
Pending(i) ==
    \/ \E j \in 1..Len(rafQueue) : rafQueue[j] = i
    \/ \E j \in 1..Len(frameQueue) : frameQueue[j] = i

\* C1: on a single target, with duration > 0 and finite end values, a tween
\* that has been driven to completion has written, for every animated
\* property, exactly its end value followed by the property's unit suffix.
\* Stated for the easing names the code's own tables hold, where the lookup
\* of other names plays no part.
C1_FinalValueIsEndValue ==
    \A i \in TweenIds :
        LET tw == tweens[i]
            c  == CallOf(i)
        IN  (/\ tw.state = "completed"
             /\ Len(c.sel) = 1
             /\ Positive(c.dur)
             /\ FiniteEnds(c)
             /\ c.easing \in EasingTable)
            => \A p \in DOMAIN tw.end : tw.last[p] = Css(tw.end[p], tw.unit[p])

\* C2: under animate with easing "linear" and duration D > 0, every frame
\* writes start + (end - start) * (elapsed / D), elapsed being the time since
\* the timestamp of the tween's first frame, capped at D.
C2_LinearFromFirstFrame ==
    \A i \in TweenIds :
        LET tw == tweens[i]
            c  == CallOf(i)
            elapsed == FSub(tw.ts, tw.firstTs)
            capped  == FMin(elapsed, c.dur)
        IN  (/\ c.op \in {"animate", "distAnimate"}
             /\ c.easing = "linear"
             /\ Positive(c.dur)
             /\ FiniteEnds(c)
             /\ tw.frames >= 1)
            => \A p \in DOMAIN tw.end :
                  tw.last[p].n =
                     Interpolate(tw.start[p], tw.end[p], FDiv(capped, c.dur))

\* C3: a function passed to animate as its fourth argument is called once
\* the animation has completed.
C3_CallbackRunsOnCompletion ==
    \A i \in TweenIds :
        (/\ CallOf(i).op \in {"animate", "distAnimate"}
         /\ CallOf(i).cb
         /\ Positive(CallOf(i).dur)
         /\ tweens[i].state = "completed")
        => tweens[i].cbRuns >= 1

\* the tween a call set up for the k-th element of its selection has
\* reached progress 1
Finished(callNo, k) ==
    \E i \in TweenIds :
        /\ tweens[i].call = callNo
        /\ tweens[i].el = calls[callNo].sel[k]
        /\ tweens[i].state = "completed"
        /\ tweens[i].progress = One

\* C4: when the promise animate returned is resolved, the tween of every
\* selected element has reached progress 1.
C4_ResolvedMeansAllFinished ==
    \A n \in 1..Len(calls) :
        (calls[n].op = "animate" /\ calls[n].promise = "fulfilled"
            /\ Positive(calls[n].dur))
        => \A k \in 1..Len(calls[n].sel) : Finished(n, k)

\* the calls whose loop has a completion signal to invoke: resolve in
\* animate, l in the dist animate, the callback of kanime when one is passed
HasSignal(c) == c.op = "kanime" => c.cb

NonPositive(d) == d.k = "fin" /\ ~Positive(d)

\* C6: a call with duration 0 or a negative duration completes at once: the
\* end values are written, completion is signalled and no frame callback is
\* registered.
C6_NoFrameForNonPositiveDuration ==
    \A i \in TweenIds :
        NonPositive(CallOf(i).dur)
        => /\ tweens[i].state = "completed"
           /\ ~Pending(i)
           /\ tweens[i].frames = 0
           /\ \A p \in DOMAIN tweens[i].end :
                 tweens[i].last[p] = Css(tweens[i].end[p], tweens[i].unit[p])

\* C7: the loop animate starts with duration 0 completes on the first frame
\* delivered to it: after that frame the completion signal has fired once
\* and no second frame is requested.
C7_ZeroDurationFirstFrame ==
    \A i \in TweenIds :
        (/\ CallOf(i).op \in {"animate", "distAnimate"}
         /\ CallOf(i).dur = Zero
         /\ tweens[i].frames >= 1)
        => /\ tweens[i].frames = 1
           /\ tweens[i].state = "completed"
           /\ tweens[i].signals = 1
           /\ ~Pending(i)
           /\ CallOf(i).op = "animate" => CallOf(i).promise = "fulfilled"

C7_Witness ==
    \E i \in TweenIds :
        /\ CallOf(i).op = "animate"
        /\ CallOf(i).dur = Zero
        /\ Len(CallOf(i).sel) = 2
        /\ tweens[i].frames = 1
        /\ tweens[i].state = "completed"
        /\ clock > 0

\* C8: a selected element whose computed style cannot be read does not stop
\* the others: every other selected element gets its tween.
C8_FailureIsPerTarget ==
    \A n \in 1..Len(calls) :
        \A k \in 1..Len(calls[n].sel) :
            Readable(calls[n].sel[k])
            => \E i \in TweenIds :
                  tweens[i].call = n /\ tweens[i].el = calls[n].sel[k]

\* the call failed: it threw, or the promise it returned is rejected
Failed(c) == c.thrown \/ c.promise = "rejected"

\* C9: a call with a target value that is no finite number fails before any
\* frame is registered and writes no style value.
C9_NonFiniteValueRejected ==
    \A n \in 1..Len(calls) :
        (calls[n].sel # <<>> /\ ~FiniteEnds(calls[n]))
        => /\ Failed(calls[n])
           /\ \A i \in TweenIds : tweens[i].call = n =>
                 ~Pending(i) /\ tweens[i].frames = 0

\* the names each variant's table holds: the cases of _ease, the keys of
\* easings
Recognized(op) ==
    IF op = "kanime" THEN EasingTable
    ELSE {"linear", "ease-in", "ease-out", "ease-in-out"}

\* C10: an easing name that is no entry of the table behaves as "linear":
\* the eased ratio of every frame is the frame's progress, and nothing
\* throws.
C10_UnknownEasingIsLinear ==
    \A i \in TweenIds :
        (CallOf(i).easing \notin Recognized(CallOf(i).op) /\ tweens[i].frames >= 1)
        => tweens[i].state # "threw" /\ tweens[i].eased = tweens[i].progress

\* C11: (as the spec's example states it) a target whose computed opacity is
\* "1", animated to opacity 0 over 200 ms with "ease-in", reads opacity "0.25"
\* with no suffix on the frame at elapsed 100, where t = 0.5 and eased = 0.25.
HalfwayFade(i) ==
    /\ "opacity" \in DOMAIN tweens[i].end
    /\ tweens[i].start["opacity"] = One
    /\ tweens[i].end["opacity"] = Zero
    /\ CallOf(i).dur = FInt(200)
    /\ CallOf(i).easing = "ease-in"
    /\ tweens[i].frames >= 1
    /\ FSub(tweens[i].ts, tweens[i].startTime) = FInt(100)

C11_ExampleReadsQuarter ==
    \A i \in TweenIds :
        HalfwayFade(i) => tweens[i].last["opacity"] = Css(FDec(1, 4), "")

\* C11, as the code computes the example: on that frame t = 0.5 and
\* eased = 0.25, and the value written is 1 + (0 - 1) * 0.25 = "0.75", with
\* no suffix; the live style of the target reads the same.
C11_ExampleReadsThreeQuarters ==
    \A i \in TweenIds :
        HalfwayFade(i)
        => /\ tweens[i].progress = FDec(1, 2)
           /\ tweens[i].eased = FDec(1, 4)
           /\ tweens[i].last["opacity"] = Css(FDec(3, 4), "")

C11_Witness ==
    \E i \in TweenIds :
        /\ HalfwayFade(i)
        /\ CallOf(i).op = "animate"
        /\ tweens[i].frames = 2
        /\ style[tweens[i].el]["opacity"] = Css(FDec(3, 4), "")

\* the suffix the spec gives a property: none for opacity, else the suffix
\* of the computed value read at start, else the pixel suffix
SpecUnit(css, prop) ==
    IF prop = "opacity" THEN ""
    ELSE IF css.n.k = "fin" /\ css.u # "" THEN css.u
    ELSE "px"

\* C12: every value a tween writes for a property carries the suffix parsed
\* from the property's computed value at start ("%" for a computed "50%"),
\* the pixel suffix when none is parsed, and no suffix for opacity.
C12_WrittenUnitIsComputedUnit ==
    \A i \in TweenIds :
        (tweens[i].frames >= 1 /\ tweens[i].state # "threw")
        => \A p \in DOMAIN tweens[i].end :
              tweens[i].last[p].u = SpecUnit(tweens[i].computed[p], p)

\* the spec's four curves at t = n/8, in exact arithmetic: the numerator over
\* 64 is an integer, and the quotient is a number the code can represent
SpecEase(type, n) ==
    CASE type = "linear"      -> FDec(n, 8)
      [] type = "ease-in"     -> FDec(n * n, 64)
      [] type = "ease-out"    -> FDec(n * (16 - n), 64)
      [] type = "ease-in-out" -> IF n < 4 THEN FDec(2 * n * n, 64)
                                 ELSE FDec((32 - 2 * n) * n - 64, 64)

\* C13: on every frame of a loop whose easing is linear, ease-in, ease-out or
\* ease-in-out, the eased ratio is the spec's curve at the frame's progress:
\* t, t*t, t*(2 - t), and 2*t*t below 0.5 and -1 + (4 - 2*t)*t from there on.
\* (The lookup takes t and the name and nothing else.)
C13_EasingCurves ==
    \A i \in TweenIds :
        \A n \in 0..8 :
            (/\ CallOf(i).easing \in {"linear", "ease-in", "ease-out", "ease-in-out"}
             /\ tweens[i].frames >= 1
             /\ tweens[i].progress = FDec(n, 8))
            => tweens[i].eased = SpecEase(CallOf(i).easing, n)

\* animate has passed t = 5/8 of ease-in-out, kanime t = 3/8 of ease-out
C13_Witness ==
    \E i \in TweenIds :
        \/ /\ CallOf(i).op = "animate"
           /\ CallOf(i).easing = "ease-in-out"
           /\ tweens[i].progress = FDec(5, 8)
           /\ tweens[i].eased = FDec(23, 32)
        \/ /\ CallOf(i).op = "kanime"
           /\ CallOf(i).easing = "ease-out"
           /\ tweens[i].progress = FDec(3, 8)
           /\ tweens[i].eased = FDec(39, 64)

\* C14: every easing of a variant's table gives the eased ratio 0 on a frame
\* whose progress is 0 and the eased ratio 1 on a frame whose progress is 1;
\* bounce and elastic are among them.
C14_EasingEndpoints ==
    \A i \in TweenIds :
        (CallOf(i).easing \in Recognized(CallOf(i).op) /\ tweens[i].frames >= 1)
        => /\ tweens[i].progress = Zero => tweens[i].eased = Zero
           /\ tweens[i].progress = One => tweens[i].eased = One

\* a bounce loop whose first frame had progress 0 has reached progress 1
C14_Witness ==
    \E i \in TweenIds :
        /\ CallOf(i).op = "kanime"
        /\ CallOf(i).easing = "bounce"
        /\ tweens[i].firstTs = tweens[i].startTime
        /\ tweens[i].frames >= 2
        /\ tweens[i].progress = One
        /\ tweens[i].eased = One

\* no other tween animates the element of tween i
OnlyTweenOn(i) == \A j \in TweenIds : j # i => tweens[j].el # tweens[i].el

\* the tween found its element as the style sheet left it, its element
\* shows what the tween wrote last, and after completion that is the value
\* the tween's own start and end values give at an eased ratio of 1
Undisturbed(i) ==
    \A p \in DOMAIN tweens[i].end :
        /\ tweens[i].computed[p] = BaseStyle(tweens[i].el, p)
        /\ tweens[i].frames >= 1 => style[tweens[i].el][p] = tweens[i].last[p]
        /\ tweens[i].state = "completed"
              => style[tweens[i].el][p] =
                    Css(Interpolate(tweens[i].start[p], tweens[i].end[p], One),
                        tweens[i].unit[p])

\* a step changes the style of no element but the one of the tween whose
\* frame callback runs
WritesOwnTarget ==
    \A el \in Elements :
        style'[el] # style[el]
        => frameQueue # <<>> /\ tweens[Head(frameQueue)].el = el

\* C15: animations started independently on different targets, with the
\* same properties and durations and the same clock, do not interfere: a
\* frame of one target's tween writes to that target only, and each target
\* ends with the values it would reach animated alone.
C15_NoCrossTargetInterference ==
    /\ [](\A i \in TweenIds : OnlyTweenOn(i) => Undisturbed(i))
    /\ [][WritesOwnTarget]_vars

\* two calls on different elements, both loops run to completion over more
\* than one frame, each element at the end value of its own loop
C15_Witness ==
    /\ Len(calls) = 2
    /\ calls[1].sel = <<"e1">> /\ calls[2].sel = <<"e2">>
    /\ Len(tweens) = 2
    /\ \A i \in TweenIds :
          /\ tweens[i].state = "completed"
          /\ tweens[i].frames >= 2
    /\ style["e1"]["width"].n = FInt(300) /\ style["e2"]["width"].n = FInt(300)
    /\ tweens[1].ts # tweens[2].ts

\* C16: a call on an empty selection is no error and does nothing: it
\* throws nothing and rejects nothing, it creates no tween (so it reads no
\* computed style), and while no other call has been made no frame callback
\* is registered, no frame is delivered and every style value is the style
\* sheet's.
C16_EmptySelectionIsNoOp ==
    /\ \A n \in 1..Len(calls) :
          calls[n].sel = <<>>
          => /\ ~Failed(calls[n])
             /\ \A i \in TweenIds : tweens[i].call # n
    /\ (\A n \in 1..Len(calls) : calls[n].sel = <<>>)
          => /\ tweens = <<>> /\ rafQueue = <<>> /\ frameQueue = <<>>
             /\ ~delivered
             /\ \A el \in Elements : \A p \in Props :
                   style[el][p] = BaseStyle(el, p)

\* kanime was called on an empty selection with a callback, and time has
\* passed to the end
C16_Witness ==
    /\ calls # <<>>
    /\ calls[1].sel = <<>>
    /\ calls[1].op = "kanime"
    /\ calls[1].cb
    /\ clock >= 1000

\* C17: after stop() on an element, no animation started on it before
\* writes its style again: a loop that had run stopAt frames when stop()
\* returned runs no further frame.
C17_NoFrameAfterStop ==
    \A i \in TweenIds :
        tweens[i].stopAt >= 0 => tweens[i].frames = tweens[i].stopAt

\* a field the claim has serialized: named, and checked if it is a checkbox
\* or a radio, disabled or not
Named(el) ==
    /\ el.name # ""
    /\ el.type \in {"checkbox", "radio"} => el.checked

\* C18: serialize() and serializeArray() return one entry for every named
\* field of the form, disabled or not (a checkbox or radio only when
\* checked), in the order of the fields.
C18_DisabledFieldsSerialized ==
    LET named == SelectSeq(form.elements, Named)
    IN  /\ params.state = "returned"
              => params.entries =
                    [k \in 1..Len(named) |->
                        [name  |-> UrlEncode(named[k].name),
                         value |-> UrlEncode(named[k].value)]]
        /\ serializedArray.state = "returned"
              => serializedArray.entries =
                    [k \in 1..Len(named) |->
                        [name |-> named[k].name, value |-> named[k].value]]

\* C19: over any sequence of dispatches of the event on an element, a
\* dispatch made from inside the handler included, the handler registered
\* with one() runs at most once for the element.
C19_OnceHandlerRunsOnce ==
    \A id \in 1..Len(onceHandlers) : onceHandlers[id].runs <= 1

\* C20: after any sequence of use, removePlugin and callPlugin calls,
\* listPlugins() returns exactly the names registered with use and not
\* removed since; callPlugin(name) calls the function registered last under
\* name; use with a non-function, and callPlugin or removePlugin of a name
\* that is not registered, throw and leave the registry as it was.
C20_PluginRegistry ==
    /\ Range(ListPlugins) = {n \in PluginNames : registered[n] # "none"}
    /\ (lastOp.op = "callPlugin" /\ lastOp.was # "none")
          => ~lastOp.threw /\ lastOp.called = lastOp.was
    /\ (lastOp.op \in {"callPlugin", "removePlugin"} /\ lastOp.was = "none")
          => lastOp.threw /\ ~lastOp.changed
    /\ lastOp.op = "useNonFunction" => lastOp.threw /\ ~lastOp.changed

\* C21: within one loop startTime is written exactly once, on the first
\* frame (before the loop, in kanime), and only read on the frames after it,
\* whatever the timestamps are: after any number of frames the loop has
\* assigned it once, and in animate it holds the first frame's timestamp.
C21_StartTimeWrittenOnce ==
    \A i \in TweenIds :
        tweens[i].frames >= 1
        => /\ tweens[i].stWrites = 1
           /\ CallOf(i).op # "kanime" => tweens[i].startTime = tweens[i].firstTs

\* C22: on every frame of every tween the progress computed is a number
\* from 0 to 1, whatever the duration and the timestamps.
C22_ProgressInUnitInterval ==
    \A i \in TweenIds :
        tweens[i].frames >= 1
        => /\ tweens[i].progress.k = "fin"
           /\ ~FLess(tweens[i].progress, Zero)
           /\ ~FLess(One, tweens[i].progress)

\* how many frame registrations the loop of tween i holds
Registrations(i) ==
    Cardinality({j \in 1..Len(rafQueue) : rafQueue[j] = i})
    + Cardinality({j \in 1..Len(frameQueue) : frameQueue[j] = i})

Phase(tw) ==
    IF tw.state = "completed" THEN "Completed"
    ELSE IF tw.frames = 0 THEN "Idle" ELSE "Running"

\* the loop of i is Idle or Running with one frame requested, every frame so
\* far having computed a progress below 1, or Completed with none
\* requested, its last frame having computed a progress not below 1
OneRequestUntilDone(i) ==
    /\ tweens[i].state \in {"scheduled", "completed"}
    /\ tweens[i].state = "scheduled"
          => /\ Registrations(i) = 1
             /\ tweens[i].frames >= 1 => FLess(tweens[i].progress, One)
    /\ tweens[i].state = "completed"
          => /\ Registrations(i) = 0
             /\ tweens[i].frames >= 1
             /\ ~FLess(tweens[i].progress, One)

\* a step moves no loop backwards, and a Completed loop runs no frame and
\* writes nothing
ForwardOnly ==
    \A i \in TweenIds :
        CallOf(i).op \in {"animate", "distAnimate"}
        => /\ Phase(tweens[i]) = "Running" => Phase(tweens'[i]) # "Idle"
           /\ Phase(tweens[i]) = "Completed"
                 => /\ Phase(tweens'[i]) = "Completed"
                    /\ tweens'[i].frames = tweens[i].frames
                    /\ tweens'[i].last = tweens[i].last

\* C23: each loop of animate moves only Idle -> Running -> Completed: while
\* progress < 1 a frame requests exactly one further frame, the frame whose
\* progress is not below 1 requests none, and a Completed loop holds no
\* frame registration and never writes again.
C23_IdleRunningCompleted ==
    /\ [](\A i \in TweenIds :
            CallOf(i).op \in {"animate", "distAnimate"} => OneRequestUntilDone(i))
    /\ [][ForwardOnly]_vars

\* a loop that ran three frames and completed, and time has passed since
C23_Witness ==
    \E i \in TweenIds :
        /\ CallOf(i).op = "animate"
        /\ Len(CallOf(i).sel) = 2
        /\ tweens[i].state = "completed"
        /\ tweens[i].frames >= 3
        /\ FLess(tweens[i].ts, FInt(clock))

\* a call leaves every loop there is as it was, its frame request included
CallCancelsNothing ==
    Len(calls') > Len(calls)
    => \A i \in TweenIds :
          /\ tweens'[i] = tweens[i]
          /\ Registrations(i)' = Registrations(i)

\* the frame callback that runs leaves its values on its element
LastWriterWins ==
    (frameQueue # <<>> /\ tweens' # tweens)
    => LET i == Head(frameQueue)
       IN  tweens'[i].state # "threw"
           => \A p \in DOMAIN tweens[i].end :
                 style'[tweens[i].el][p] = tweens'[i].last[p]

\* on every element whose loops have all completed, each property shows the
\* last value of one of the loops that animate it
ShowsSomeFinalValue ==
    \A i \in TweenIds :
        (\A j \in TweenIds :
            tweens[j].el = tweens[i].el => tweens[j].state = "completed")
        => \A p \in DOMAIN tweens[i].end :
              \E j \in TweenIds :
                 /\ tweens[j].el = tweens[i].el
                 /\ style[tweens[i].el][p] = tweens[j].last[p]

\* C24: a call on a target whose earlier loop is still running cancels
\* nothing: the earlier loop keeps its frame request, each loop holds one
\* request until its own progress reaches 1, every frame leaves its values
\* on the target, and so the final value is that of the loop whose last
\* frame ran last.
C24_OverlappingLoopsBothRun ==
    /\ [](\A i \in TweenIds : OneRequestUntilDone(i))
    /\ [](ShowsSomeFinalValue)
    /\ [][CallCancelsNothing /\ LastWriterWins]_vars

\* two calls on e1, the second made while the first loop was running (it
\* read a width the first loop had written); the first loop ran a frame
\* after that call, in which the second ran its first; both completed, the
\* second one last, and e1 shows the second loop's value
C24_Witness ==
    /\ Len(tweens) = 2
    /\ tweens[1].el = "e1" /\ tweens[2].el = "e1"
    /\ tweens[1].state = "completed" /\ tweens[2].state = "completed"
    /\ tweens[2].computed["width"] # BaseStyle("e1", "width")
    /\ tweens[2].firstTs = tweens[1].ts
    /\ FLess(tweens[1].ts, tweens[2].ts)
    /\ style["e1"]["width"] = tweens[2].last["width"]

\* the start value a variant takes from the computed value it read when
\* the call was made
CapturedStart(op, css) ==
    IF op = "kanime"
    THEN IF RegexMatch(css) THEN ParseFloat(css) ELSE Zero
    ELSE IF Truthy(ParseFloat(css)) THEN ParseFloat(css) ELSE Zero

\* the eased ratio a variant computes from a progress
EasedOf(op, progress, easing) ==
    IF op = "kanime" THEN KanimeEase(progress, easing) ELSE Ease(progress, easing)

\* C25: the start and end values of a tween are fixed when the loop starts:
\* the value a frame writes is the interpolation between the start value
\* taken from the computed value read at the call and the end value passed
\* to the call, at the eased ratio of that frame's progress, whatever other
\* code has written to the property since.
C25_ValuesFixedAtStart ==
    \A i \in TweenIds :
        (tweens[i].frames >= 1 /\ tweens[i].state # "threw")
        => \A p \in DOMAIN tweens[i].end :
              tweens[i].last[p] =
                 Css(Interpolate(CapturedStart(CallOf(i).op, tweens[i].computed[p]),
                                 CallOf(i).props[p],
                                 EasedOf(CallOf(i).op, tweens[i].progress,
                                         CallOf(i).easing)),
                     tweens[i].unit[p])

\* other code wrote to a property of e1 after a loop's first frame, the loop
\* ran on to completion and e1 shows the loop's end value
C25_Witness ==
    \E i \in TweenIds :
        /\ tweens[i].pokedAt >= 1
        /\ tweens[i].frames > tweens[i].pokedAt
        /\ tweens[i].state = "completed"
        /\ \A p \in DOMAIN tweens[i].end :
              /\ style[tweens[i].el][p] = tweens[i].last[p]
              /\ style[tweens[i].el][p] # ForeignValue(p)

\* C26: with duration > 0 every tween reaches progress 1 and stops
\* rescheduling: a tween holds a frame registration until the frame on which
\* its progress is 1, so a tween without one has completed at progress 1.
C26_EveryTweenReachesOne ==
    \A i \in TweenIds :
        (Positive(CallOf(i).dur) /\ ~Pending(i))
        => /\ tweens[i].state = "completed"
           /\ tweens[i].progress = One

\* the effect a toggle owes an element that was hidden / shown at the call
Showing(kind) == IF kind = "fade" THEN "fadeIn" ELSE "slideDown"
Hiding(kind)  == IF kind = "fade" THEN "fadeOut" ELSE "slideUp"

\* C27: a toggle called on a selection of hidden and shown elements, with no
\* earlier effect still running, has, once its frame and timers have run,
\* applied only the showing effect to each element that was hidden at the
\* call, which is then displayed, and only the hiding effect to each element
\* that was shown, which is then not displayed.
C27_TogglePerElement ==
    (/\ toggled.kind # "none"
     /\ toggled.idle
     /\ toggled.hidden # {}
     /\ Range(toggled.sel) \ toggled.hidden # {}
     /\ fxFrames = <<>>
     /\ fxTimers = <<>>)
    => \A el \in Range(toggled.sel) :
          IF el \in toggled.hidden
          THEN /\ Range(effects[el]) = {Showing(toggled.kind)}
               /\ boxes[el].display = "block"
          ELSE /\ Range(effects[el]) = {Hiding(toggled.kind)}
               /\ boxes[el].display = "none"

\* C28: with duration > 0 the promise of every animate call is resolved in
\* the end, the empty selection included: resolve is called only from a
\* frame of one of the call's loops, so once none of them holds a frame
\* registration the promise has been fulfilled.
C28_PromiseResolved ==
    \A n \in 1..Len(calls) :
        (/\ calls[n].op = "animate"
         /\ Positive(calls[n].dur)
         /\ \A i \in TweenIds : tweens[i].call = n => ~Pending(i))
        => calls[n].promise = "fulfilled"

=============================================================================
